---- MODULE Spec2Model ----
(***************************************************************************)
(* disk_spin_manager: three producers (the hdparm probe loop, the notify   *)
(* callback, the save timer) send MetricMessage values over one            *)
(* std::sync::mpsc channel to the metrics receive loop, which owns the     *)
(* registry and writes the textfile.                                       *)
(***************************************************************************)
EXTENDS Integers, Sequences, FiniteSets, TLC

\* ------------------------------------------------------------------ bounds
MaxSteps == 7       \* steps taken by the three producer threads together
MaxQueue == 2       \* messages waiting in the channel (the channel is unbounded)

\* ------------------------------------------------------- lsblk (lsblk.rs)
\* struct Disk { name, type, rota }
Disk(name, type, rota) == [name |-> name, disk_type |-> type, rota |-> rota]

\* "/dev/{name}"
DevPath(name) == "/dev/" \o name

\* Parsed `blockdevices` arrays the helper can print.
LsblkOutputs ==
    { << Disk("sda", "disk", TRUE), Disk("sdb", "disk", TRUE) >>,
      << Disk("sdb", "disk", TRUE), Disk("sr0", "rom", TRUE), Disk("sda", "disk", TRUE) >>,
      << Disk("sda", "disk", TRUE), Disk("sdb", "disk", FALSE) >> }

\* One run of Lsblk::get_disk_list followed by serde_json::from_str:
\* exit is "ok", "execfail" (Command::output failed) or "nonzero";
\* json is FALSE when the text does not deserialize into LsblkOutput.
LsblkRuns ==
    { [exit |-> "ok", json |-> TRUE, blockdevices |-> l] : l \in LsblkOutputs }
    \cup { [exit |-> e, json |-> TRUE, blockdevices |-> << >>] : e \in {"execfail", "nonzero"} }
    \cup { [exit |-> "ok", json |-> FALSE, blockdevices |-> << >>] }

\* Mutant: the rota flag is not looked at.
RECURSIVE FilterDisksAnyRota(_)
FilterDisksAnyRota(disks) ==
    IF disks = << >> THEN << >>
    ELSE LET disk == Head(disks)
             rest == FilterDisksAnyRota(Tail(disks))
         IN  IF disk.disk_type = "disk" THEN << DevPath(disk.name) >> \o rest
             ELSE rest

\* The filter_map closure of get_all_disks, applied in list order.
RECURSIVE FilterDisks(_)
FilterDisks(disks) ==
    IF disks = << >> THEN << >>
    ELSE LET disk == Head(disks)
             rest == FilterDisks(Tail(disks))
         IN  IF ~disk.rota THEN rest
             ELSE IF disk.disk_type = "disk" THEN << DevPath(disk.name) >> \o rest
             ELSE rest

\* get_all_disks: Result<Vec<String>>
GetAllDisks(run) ==
    IF run.exit # "ok" \/ ~run.json
    THEN [ok |-> FALSE, disks |-> << >>]
    ELSE [ok |-> TRUE, disks |-> FilterDisks(run.blockdevices)]

\* The elements of a Vec.
SeqToSet(s) == { s[i] : i \in 1..Len(s) }

\* Every DeviceId the enumeration can produce, ascending (lexicographic).
DeviceOrder == << "/dev/sda", "/dev/sdb" >>
DeviceIds == { DeviceOrder[i] : i \in 1..Len(DeviceOrder) }

\* ------------------------------------------- sysfs scan (metrics.rs, 102-166)
\* str::starts_with
StartsWithStr(s, prefix) ==
    Len(s) >= Len(prefix) /\ SubSeq(s, 1, Len(prefix)) = prefix

\* str::trim: white space is cut off both ends.
WhiteSpace == { " ", "\n", "\t" }
RECURSIVE Trim(_)
Trim(s) ==
    IF s = "" THEN s
    ELSE IF SubSeq(s, 1, 1) \in WhiteSpace THEN Trim(SubSeq(s, 2, Len(s)))
    ELSE IF SubSeq(s, Len(s), Len(s)) \in WhiteSpace THEN Trim(SubSeq(s, 1, Len(s) - 1))
    ELSE s

\* One entry of <sysfs>/block: its file name and its queue/rotational file,
\* which may be missing or unreadable.
DirEntry(file_name, exists, readable, content) ==
    [file_name |-> file_name, exists |-> exists, readable |-> readable, content |-> content]

\* Option<Result<String>>: "none", "err" or "ok" with the device path.
EntryNone == [kind |-> "none", disk |-> ""]
EntryErr == [kind |-> "err", disk |-> ""]
EntryOk(disk) == [kind |-> "ok", disk |-> disk]

\* filter_map_disk; the path of a DirEntry always has a file name.
FilterMapDisk(entry) ==
    IF ~entry.exists THEN EntryNone
    ELSE IF ~entry.readable THEN EntryErr
    ELSE LET rotational_value == Trim(entry.content)
         IN  IF rotational_value = "0" THEN EntryNone
             ELSE IF rotational_value = "1"
                  THEN IF ~StartsWithStr(entry.file_name, "sd") THEN EntryNone
                       ELSE EntryOk(DevPath(entry.file_name))
             ELSE EntryNone

\* filter_map(filter_map_disk).collect::<Result<Vec<String>>>(): the paths in
\* directory order, or the first error met.
RECURSIVE CollectDisks(_)
CollectDisks(dir_entries) ==
    IF dir_entries = << >> THEN [ok |-> TRUE, disks |-> << >>]
    ELSE LET first == FilterMapDisk(Head(dir_entries))
             rest == CollectDisks(Tail(dir_entries))
         IN  IF first.kind = "err" THEN [ok |-> FALSE, disks |-> << >>]
             ELSE IF ~rest.ok THEN rest
             ELSE IF first.kind = "ok" THEN [ok |-> TRUE, disks |-> << first.disk >> \o rest.disks]
             ELSE rest

\* get_all_disks(sysfs): listed is FALSE when read_dir or one of its entries
\* fails.
SysfsGetAllDisks(listed, dir_entries) ==
    IF ~listed THEN [ok |-> FALSE, disks |-> << >>]
    ELSE CollectDisks(dir_entries)

\* ------------------------------------------------ hdparm (disk_status.rs)
\* One run of `hdparm -C <disk>`: exec is FALSE when the command could not be
\* executed, success is output.status.success(), standby / active tell
\* whether stdout contains "standby" / "active/idle".
HdparmRuns ==
    { [exec |-> TRUE, success |-> TRUE, standby |-> s, active |-> a] :
        s \in BOOLEAN, a \in BOOLEAN }
    \cup { [exec |-> FALSE, success |-> FALSE, standby |-> FALSE, active |-> FALSE],
           [exec |-> TRUE, success |-> FALSE, standby |-> TRUE, active |-> FALSE] }

\* str::contains: pat occurs somewhere in s.
ContainsStr(s, pat) ==
    \E i \in 1..(Len(s) - Len(pat) + 1) : SubSeq(s, i, i + Len(pat) - 1) = pat

\* The run whose Command::output gave `executed`, `success` and `stdout`.
HdparmRun(executed, success, stdout) ==
    [exec |-> executed, success |-> success,
     standby |-> ContainsStr(stdout, "standby"),
     active |-> ContainsStr(stdout, "active/idle")]

\* Result<Option<f64>>: ok = FALSE is Err, known = FALSE is Ok(None).
ProbeErr == [ok |-> FALSE, known |-> FALSE, value |-> 0]
ProbeNone == [ok |-> TRUE, known |-> FALSE, value |-> 0]
ProbeSome(v) == [ok |-> TRUE, known |-> TRUE, value |-> v]

\* Hdparm::get_disk_status
GetDiskStatus(run) ==
    IF ~run.exec THEN ProbeErr
    ELSE IF ~run.success THEN ProbeErr
    ELSE IF run.standby THEN ProbeSome(0)
    ELSE IF run.active THEN ProbeSome(1)
    ELSE ProbeNone

\* ------------------------------------------------------ paths (watch.rs)
\* A path is the sequence of its components.
Watches == << << "a" >>, << "a", "b" >>, << "c" >> >>

\* Path::starts_with: component-wise prefix.
StartsWith(path, base) ==
    /\ Len(base) <= Len(path)
    /\ \A i \in 1..Len(base) : path[i] = base[i]

\* Path::to_string_lossy of an absolute path.
RECURSIVE ToStringLossy(_)
ToStringLossy(path) ==
    IF path = << >> THEN ""
    ELSE "/" \o Head(path) \o ToStringLossy(Tail(path))

\* Result<String> of match_base_path: ok = FALSE is the bail!.
ResolveErr == [ok |-> FALSE, root |-> ""]
ResolveOk(base) == [ok |-> TRUE, root |-> ToStringLossy(base)]

\* Mutant: the loops are nested the other way round: the first path that lies
\* under a root decides.
RECURSIVE MatchPathsFirst(_, _, _)
MatchPathsFirst(base_paths, paths, j) ==
    IF j > Len(paths) THEN ResolveErr
    ELSE IF \E i \in 1..Len(base_paths) : StartsWith(paths[j], base_paths[i])
         THEN ResolveOk(base_paths[CHOOSE i \in 1..Len(base_paths) :
                           /\ StartsWith(paths[j], base_paths[i])
                           /\ \A k \in 1..(i - 1) : ~StartsWith(paths[j], base_paths[k])])
         ELSE MatchPathsFirst(base_paths, paths, j + 1)

\* match_base_path: the outer loop runs over base_paths, the inner over paths.
RECURSIVE MatchFrom(_, _, _)
MatchFrom(base_paths, paths, i) ==
    IF i > Len(base_paths) THEN ResolveErr
    ELSE IF \E j \in 1..Len(paths) : StartsWith(paths[j], base_paths[i])
         THEN ResolveOk(base_paths[i])
         ELSE MatchFrom(base_paths, paths, i + 1)

\* Mutant: an event under no watch is attributed to the first watch.
MatchBasePathDefault(base_paths, paths) ==
    IF MatchFrom(base_paths, paths, 1).ok \/ base_paths = << >>
    THEN MatchFrom(base_paths, paths, 1)
    ELSE ResolveOk(base_paths[1])

MatchBasePath(base_paths, paths) == MatchFrom(base_paths, paths, 1)

\* notify::Result<notify::Event> values handed to the callback.
EventPaths ==
    { << << "a", "b", "y" >> >>,
      << << "d", "x" >>, << "a", "x" >> >>,
      << << "d", "x" >> >>,
      << >> }
NotifyResults ==
    { [ok |-> TRUE, paths |-> p] : p \in EventPaths }
    \cup { [ok |-> FALSE, paths |-> << >>] }

\* ------------------------------------------------- messages (MetricMessage)
DiskStatusMsg(disk, status, seq) ==
    [kind |-> "DiskStatus", disk |-> disk, status |-> status,
     ok |-> TRUE, root |-> "", seq |-> seq]
NotifyEventMsg(res, seq) ==
    [kind |-> "NotifyEvent", disk |-> "", status |-> 0,
     ok |-> res.ok, root |-> res.root, seq |-> seq]
SaveFileMsg(seq) ==
    [kind |-> "SaveFile", disk |-> "", status |-> 0,
     ok |-> TRUE, root |-> "", seq |-> seq]

\* The producer a message kind comes from.
Producers == {"probe", "watch", "timer"}
SrcOf(m) ==
    IF m.kind = "DiskStatus" THEN "probe"
    ELSE IF m.kind = "NotifyEvent" THEN "watch"
    ELSE "timer"

\* Mutant: the message jumps the queue.
SendFront(q, m) == << m >> \o q

\* Sender::send on a live channel: the message joins the tail of the queue.
Send(q, m) == Append(q, m)

\* The model lets a producer run only while the channel holds fewer than
\* MaxQueue messages.
Room(q) == Len(q) < MaxQueue

VARIABLES
    queue,        \* messages in the channel, head first
    rxAlive,      \* the Receiver has not been dropped
    senders,      \* the Sender handles alive: "main", "probe", "watch", "timer"
    gauges,       \* disk_status gauge: DeviceId -> 0 | 1, entries created lazily
    counter,      \* notify_events counter
    file,         \* the textfile: [exists, lines]
    aggState,     \* "Running" | "Stopped"
    aggResult,    \* what receive_metrics returned: "none" | "ok" | "err"
    mainPc,       \* "receiving" | "returned"
    probePc,      \* "enumerate" | "probing" | "ended"
    todo,         \* disks of the current cycle not yet probed
    watcherAlive, \* the RecommendedWatcher has not been dropped
    timerPc,      \* "running" | "ended"
    steps,        \* producer steps taken so far
    nSent,        \* per producer: messages sent so far
    lastApplied,  \* per producer: seq of the last message the loop applied
    resolvedSent, \* history: NotifyEvent(Ok(_)) messages sent so far
    lastKnown,    \* history: DeviceId -> latest Some(status) the probe obtained
    unknownLatest,\* history: devices whose latest probe result is Ok(None)
    probeFailed,  \* history: get_all_disks or get_disk_status returned Err
    watchFailed,  \* history: the callback saw an Err or an unresolvable event
    writeFault,   \* history: the fault met by the latest write_textfile call
    lastGood,     \* history: the file as the latest faultless write_textfile left it
    enumerated,   \* history: the disks of the latest successful get_all_disks
    cycleSent,    \* history: messages the latest probe cycle has sent
    call          \* a function called on its own: its arguments and what it returned

vars == << queue, rxAlive, senders, gauges, counter, file, aggState, aggResult,
           mainPc, probePc, todo, watcherAlive,
           timerPc, steps, nSent, lastApplied,
           resolvedSent, lastKnown, unknownLatest, probeFailed, watchFailed, writeFault,
           lastGood, enumerated, cycleSent, call >>

\* ------------------------------------------------------ registry, textfile
\* Mutant: the status is added to the gauge (Gauge::add) instead of set.
AddGauge(g, disk, status) ==
    [d \in (DOMAIN g) \cup {disk} |->
        IF d # disk THEN g[d]
        ELSE IF disk \in DOMAIN g THEN g[d] + status
        ELSE status]

\* Mutant: every gauge of the family is set, not only the one of the label.
SetGaugeAll(g, disk, status) ==
    [d \in (DOMAIN g) \cup {disk} |-> status]

\* Mutant: the family is reset before the gauge is set.
SetGaugeOnly(g, disk, status) ==
    [d \in {disk} |-> status]

\* with_label_values(&[disk]).set(status): the entry is created when absent.
SetGauge(g, disk, status) ==
    [d \in (DOMAIN g) \cup {disk} |-> IF d = disk THEN status ELSE g[d]]

Line(t, name, label, value) == [t |-> t, name |-> name, label |-> label, value |-> value]

\* The gauge samples of the devices DeviceOrder[i..], ascending by DeviceId.
RECURSIVE GaugeLines(_, _)
GaugeLines(g, i) ==
    IF i > Len(DeviceOrder) THEN << >>
    ELSE (IF DeviceOrder[i] \in DOMAIN g
          THEN << Line("sample", "disk_status", DeviceOrder[i], g[DeviceOrder[i]]) >>
          ELSE << >>) \o GaugeLines(g, i + 1)

\* registry.gather() and TextEncoder::encode: the families by name, a family
\* without samples left out, then HELP, TYPE and the samples of each.
Serialize(g, c) ==
    (IF DOMAIN g = {} THEN << >>
     ELSE << Line("HELP", "disk_status", "", 0), Line("TYPE", "disk_status", "gauge", 0) >>
          \o GaugeLines(g, 1))
    \o << Line("HELP", "notify_events", "", 0), Line("TYPE", "notify_events", "counter", 0),
          Line("sample", "notify_events", "", c) >>

\* The GaugeVec keeps its children in a hash map: the model keeps them in the
\* order they were created, one [disk, value] each.
\* with_label_values(&[disk]).set(status) on the children.
SetChild(children, disk, status) ==
    IF \E i \in 1..Len(children) : children[i].disk = disk
    THEN [i \in 1..Len(children) |->
            IF children[i].disk = disk THEN [disk |-> disk, value |-> status]
            ELSE children[i]]
    ELSE Append(children, [disk |-> disk, value |-> status])

\* The device-to-value map the children hold.
MapOf(children) ==
    [d \in { children[i].disk : i \in 1..Len(children) } |->
        (CHOOSE ch \in { children[i] : i \in 1..Len(children) } : ch.disk = d).value]

\* The place of a DeviceId in the ascending order of label values.
Rank(disk) == CHOOSE i \in 1..Len(DeviceOrder) : DeviceOrder[i] = disk

\* Mutant: the samples are left in the order of the hash map.
KeepOrder(children) == children

\* Registry::gather sorts the metrics of a family by their label values.
RECURSIVE SortByLabel(_)
SortByLabel(children) ==
    IF children = << >> THEN << >>
    ELSE LET first == CHOOSE ch \in { children[i] : i \in 1..Len(children) } :
                        \A k \in 1..Len(children) : Rank(ch.disk) <= Rank(children[k].disk)
         IN  << first >>
             \o SortByLabel(SelectSeq(children, LAMBDA ch : ch.disk # first.disk))

\* Registry::gather: the families by name, "disk_status" before
\* "notify_events"; a family without metrics is left out.
Gather(children, c) ==
    (IF children = << >> THEN << >>
     ELSE << [name |-> "disk_status", type |-> "gauge",
              samples |-> [i \in 1..Len(children) |->
                             [label |-> SortByLabel(children)[i].disk,
                              value |-> SortByLabel(children)[i].value]]] >>)
    \o << [name |-> "notify_events", type |-> "counter",
           samples |-> << [label |-> "", value |-> c] >>] >>

\* TextEncoder::encode: per family HELP, TYPE, then one line per sample.
RECURSIVE Encode(_)
Encode(families) ==
    IF families = << >> THEN << >>
    ELSE LET mf == Head(families)
         IN  << Line("HELP", mf.name, "", 0), Line("TYPE", mf.name, mf.type, 0) >>
             \o [i \in 1..Len(mf.samples) |->
                   Line("sample", mf.name, mf.samples[i].label, mf.samples[i].value)]
             \o Encode(Tail(families))

NoFile == [exists |-> FALSE, lines |-> << >>]
FileOf(lines) == [exists |-> TRUE, lines |-> lines]

\* What can go wrong in one write_textfile call: File::create fails; the
\* encoder fails after `cut` lines; the buffered bytes fail to reach the file
\* after `cut` lines when the BufWriter is dropped.
FaultKinds == {"none", "create", "encode", "flush"}

\* The partial write followed: the file is left truncated, nothing written.
Cuts(content) == {0}

\* Mutant: the last buffered line never reaches the file.
WriteTextfileUnflushed(f, content, fault, cut) ==
    IF fault = "create" THEN [file |-> f, ok |-> FALSE]
    ELSE IF fault = "encode" THEN [file |-> FileOf(SubSeq(content, 1, cut)), ok |-> FALSE]
    ELSE IF fault = "flush" THEN [file |-> FileOf(SubSeq(content, 1, cut)), ok |-> TRUE]
    ELSE [file |-> FileOf(SubSeq(content, 1, Len(content) - 1)), ok |-> TRUE]

\* write_textfile: File::create truncates, the encoder writes into a
\* BufWriter, Ok(()) is returned without a flush: the BufWriter flushes when
\* dropped and ignores an error met there.
WriteTextfile(f, content, fault, cut) ==
    IF fault = "create" THEN [file |-> f, ok |-> FALSE]
    ELSE IF fault = "encode" THEN [file |-> FileOf(SubSeq(content, 1, cut)), ok |-> FALSE]
    ELSE IF fault = "flush" THEN [file |-> FileOf(SubSeq(content, 1, cut)), ok |-> TRUE]
    ELSE [file |-> FileOf(content), ok |-> TRUE]

\* ------------------------------------------------------------------- Init
\* No function is called on its own while the program runs.
NoCall == [done |-> FALSE]

\* The process after main has spawned its threads (main.rs, lines 29 to 59).
ProgramInit ==
    /\ queue = << >>
    /\ rxAlive = TRUE
    /\ senders = {"main", "probe", "watch", "timer"}
    /\ gauges = [d \in {} |-> 0]
    /\ counter = 0
    /\ file = NoFile
    /\ aggState = "Running"
    /\ aggResult = "none"
    /\ mainPc = "receiving"
    /\ probePc = "enumerate"
    /\ todo = << >>
    /\ watcherAlive = TRUE
    /\ timerPc = "running"
    /\ steps = 0
    /\ nSent = [p \in Producers |-> 0]
    /\ lastApplied = [p \in Producers |-> 0]
    /\ resolvedSent = 0
    /\ lastKnown = [d \in {} |-> 0]
    /\ unknownLatest = {}
    /\ probeFailed = FALSE
    /\ watchFailed = FALSE
    /\ writeFault = "-"
    /\ lastGood = NoFile
    /\ enumerated = {}
    /\ cycleSent = 0

Init == ProgramInit /\ call = NoCall

programVars == << queue, rxAlive, senders, gauges, counter, file, aggState, aggResult,
                  mainPc, probePc, todo, watcherAlive,
                  timerPc, steps, nSent, lastApplied,
                  resolvedSent, lastKnown, unknownLatest, probeFailed, watchFailed,
                  writeFault, lastGood, enumerated, cycleSent >>

aggVars == << gauges, counter, file, aggState, aggResult, lastApplied, writeFault,
             lastGood >>
probeVars == << probePc, todo, lastKnown, unknownLatest, probeFailed, enumerated,
               cycleSent >>
watchVars == << resolvedSent, watchFailed >>
timerVars == << timerPc >>

\* ------------------------------------------------- probe loop (disk_status.rs)
\* Mutant: the loop retries after an error.
LoopAfterRetry(ok) == "enumerate"

\* disk_status_loop: an Err from update_disk_status is logged and the thread
\* returns; otherwise it sleeps and starts the next cycle.
LoopAfter(ok) == IF ok THEN "enumerate" ELSE "ended"

\* Mutant: Ok(None) is sent too, as 0.0.
SendsStatusAlways(res) == res.ok

\* Mutant: a failed query is reported to the loop as a message as well.
SendsStatusOnError(res) == ~res.ok \/ res.known

\* update_disk_status sends a message only for Some(status).
SendsStatus(res) == res.ok /\ res.known

\* Mutant: the end of the probe thread closes the channel for every producer.
ProbeHandlesAll(pc) == IF pc = "ended" THEN {} ELSE senders

\* The thread's Sender is dropped when the thread function returns.
ProbeHandles(pc) == IF pc = "ended" THEN senders \ {"probe"} ELSE senders

\* update_disk_status, line 36: get_all_disks(lsblk)?
ProbeEnumerate ==
    /\ probePc = "enumerate"
    /\ mainPc = "receiving"
    /\ steps < MaxSteps
    /\ \E run \in LsblkRuns :
         LET all == GetAllDisks(run)
             pc == IF ~all.ok THEN LoopAfter(FALSE)
                   ELSE IF all.disks = << >> THEN LoopAfter(TRUE)
                   ELSE "probing"
         IN  /\ todo' = all.disks
             /\ probePc' = pc
             /\ probeFailed' = (probeFailed \/ ~all.ok)
             /\ enumerated' = IF all.ok THEN SeqToSet(all.disks) ELSE enumerated
             /\ cycleSent' = 0
             /\ senders' = ProbeHandles(pc)
    /\ steps' = steps + 1
    /\ UNCHANGED << queue, rxAlive, lastKnown, unknownLatest, nSent >>
    /\ UNCHANGED << aggVars, watchVars, timerVars, mainPc, watcherAlive, call >>

\* update_disk_status, lines 38 to 45: one iteration of the for loop.
ProbeDisk ==
    /\ probePc = "probing"
    /\ mainPc = "receiving"
    /\ steps < MaxSteps
    /\ Room(queue)
    /\ \E run \in HdparmRuns :
         LET disk == Head(todo)
             res == GetDiskStatus(run)
             sends == SendsStatus(res)
             sendOk == sends => rxAlive
             pc == IF ~res.ok \/ ~sendOk THEN LoopAfter(FALSE)
                   ELSE IF Tail(todo) = << >> THEN LoopAfter(TRUE)
                   ELSE "probing"
         IN  /\ todo' = IF pc = "ended" THEN << >> ELSE Tail(todo)
             /\ probePc' = pc
             /\ probeFailed' = (probeFailed \/ ~res.ok)
             /\ lastKnown' = IF res.ok /\ res.known /\ rxAlive
                              THEN SetGauge(lastKnown, disk, res.value)
                              ELSE lastKnown
             /\ unknownLatest' = IF ~res.ok THEN unknownLatest
                                  ELSE IF res.known THEN unknownLatest \ {disk}
                                  ELSE unknownLatest \cup {disk}
             /\ IF sends /\ rxAlive
                THEN /\ queue' = Send(queue, DiskStatusMsg(disk, res.value, nSent["probe"] + 1))
                     /\ nSent' = [nSent EXCEPT !["probe"] = @ + 1]
                     /\ cycleSent' = cycleSent + 1
                ELSE UNCHANGED << queue, nSent, cycleSent >>
             /\ senders' = ProbeHandles(pc)
    /\ steps' = steps + 1
    /\ UNCHANGED << rxAlive, enumerated >>
    /\ UNCHANGED << aggVars, watchVars, timerVars, mainPc, watcherAlive, call >>

\* ------------------------------------------------ notify callback (watch.rs)
\* handle_notify_event, lines 32 to 35: the message for one callback result.
EventMessage(res) ==
    IF res.ok THEN MatchBasePath(Watches, res.paths) ELSE ResolveErr

\* A notification error, or an event none of whose paths lies under a watch.
Unresolvable(res) ==
    \/ ~res.ok
    \/ ~\E i \in 1..Len(Watches), j \in 1..Len(res.paths) :
           StartsWith(res.paths[j], Watches[i])

\* Mutant: the callback gives up after a failed send, as the timer does.
HandlesNextUntilError(sent) == sent

\* The watcher keeps calling the closure whatever the send returned: its Err
\* is logged (watch.rs, lines 36 to 38).
HandlesNext(sent) == TRUE

\* handle_notify_event: one callback invocation; a failed send is logged.
HandleNotifyEvent ==
    /\ watcherAlive
    /\ mainPc = "receiving"
    /\ steps < MaxSteps
    /\ Room(queue)
    /\ \E res \in NotifyResults :
         LET message == EventMessage(res)
         IN  /\ IF rxAlive
                THEN /\ queue' = Send(queue, NotifyEventMsg(message, nSent["watch"] + 1))
                     /\ nSent' = [nSent EXCEPT !["watch"] = @ + 1]
                     /\ resolvedSent' = resolvedSent + (IF Unresolvable(res) THEN 0 ELSE 1)
                     /\ watchFailed' = (watchFailed \/ Unresolvable(res))
                ELSE UNCHANGED << queue, nSent, resolvedSent, watchFailed >>
    /\ watcherAlive' = HandlesNext(rxAlive)
    /\ steps' = steps + 1
    /\ UNCHANGED << rxAlive, senders, mainPc >>
    /\ UNCHANGED << aggVars, probeVars, timerVars, call >>

\* ----------------------------------------------------- save timer (main.rs)
\* The closure of the second thread::spawn: send SaveFile, break on a send
\* error, sleep.
TimerTick ==
    /\ timerPc = "running"
    /\ mainPc = "receiving"
    /\ steps < MaxSteps
    /\ Room(queue)
    /\ steps' = steps + 1
    /\ IF rxAlive
       THEN /\ queue' = Send(queue, SaveFileMsg(nSent["timer"] + 1))
            /\ nSent' = [nSent EXCEPT !["timer"] = @ + 1]
            /\ UNCHANGED << timerPc, senders >>
       ELSE /\ timerPc' = "ended"
            /\ senders' = senders \ {"timer"}
            /\ UNCHANGED << queue, nSent >>
    /\ UNCHANGED << rxAlive, mainPc, watcherAlive >>
    /\ UNCHANGED << aggVars, probeVars, watchVars, call >>

\* ------------------------------------------------------------ receive loop
\* Metrics::receive_metrics is called by main but its file is not part of the
\* sources at hand; the loop follows the design document, section 4.2.
\* Mutant: a DiskStatus message resets the counter.
HandleReset(m, g, c) ==
    IF m.kind = "DiskStatus"
    THEN [gauges |-> SetGauge(g, m.disk, m.status), counter |-> 0, ok |-> TRUE]
    ELSE IF m.ok
    THEN [gauges |-> g, counter |-> c + 1, ok |-> TRUE]
    ELSE [gauges |-> g, counter |-> c, ok |-> FALSE]

\* The effect of one DiskStatus or NotifyEvent message on the registry:
\* [gauges, counter, ok], ok = FALSE being the fatal error.
Handle(m, g, c) ==
    IF m.kind = "DiskStatus"
    THEN [gauges |-> SetGauge(g, m.disk, m.status), counter |-> c, ok |-> TRUE]
    ELSE IF m.ok
    THEN [gauges |-> g, counter |-> c + 1, ok |-> TRUE]
    ELSE [gauges |-> g, counter |-> c, ok |-> FALSE]

\* Mutant: the loop logs a handler's error and goes on.
LoopStateContinue(ok) == "Running"

\* The loop goes on after a handler's Ok and returns the error of an Err.
LoopState(ok) == IF ok THEN "Running" ELSE "Stopped"
LoopResult(ok) == IF ok THEN "none" ELSE "err"

\* The Receiver is gone once the loop has returned, and with it the messages
\* still queued.
RxAfter(state) == state = "Running"
QueueAfter(state, q) == IF state = "Running" THEN q ELSE << >>

\* receive_metrics: one iteration of the loop around Receiver::recv, which
\* blocks while the queue is empty and a Sender is alive, and reports the
\* channel closed once the queue is empty and no Sender is left. main keeps
\* its own tx until the loop has returned (main.rs, lines 62 to 65).
ReceiveMetrics ==
    /\ aggState = "Running"
    /\ mainPc = "receiving"
    /\ IF queue # << >>
       THEN LET m == Head(queue)
            IN  /\ lastApplied' = [lastApplied EXCEPT ![SrcOf(m)] = m.seq]
                /\ IF m.kind = "SaveFile"
                   THEN LET content == Serialize(gauges, counter)
                        IN  \E fault \in FaultKinds, cut \in Cuts(content) :
                              LET w == WriteTextfile(file, content, fault, cut)
                              IN  /\ file' = w.file
                                  /\ writeFault' = fault
                                  /\ lastGood' = IF fault = "none" THEN w.file ELSE lastGood
                                  /\ aggState' = LoopState(w.ok)
                                  /\ aggResult' = LoopResult(w.ok)
                                  /\ UNCHANGED << gauges, counter >>
                   ELSE LET r == Handle(m, gauges, counter)
                        IN  /\ gauges' = r.gauges
                            /\ counter' = r.counter
                            /\ aggState' = LoopState(r.ok)
                            /\ aggResult' = LoopResult(r.ok)
                            /\ UNCHANGED << file, writeFault, lastGood >>
                /\ queue' = QueueAfter(aggState', Tail(queue))
       ELSE /\ senders = {}
            /\ aggState' = "Stopped"
            /\ aggResult' = "ok"
            /\ UNCHANGED << queue, gauges, counter, file, lastApplied, writeFault, lastGood >>
    /\ rxAlive' = RxAfter(aggState')
    /\ UNCHANGED << senders, mainPc, watcherAlive, steps, nSent >>
    /\ UNCHANGED << probeVars, watchVars, timerVars, call >>

\* main, lines 62 to 67: receive_metrics()? has returned; main returns, which
\* drops _watcher (and the callback's Sender) and tx, and the process exits.
MainReturn ==
    /\ aggState = "Stopped"
    /\ mainPc = "receiving"
    /\ mainPc' = "returned"
    /\ watcherAlive' = FALSE
    /\ senders' = senders \ {"main", "watch"}
    /\ UNCHANGED << queue, rxAlive, steps, nSent >>
    /\ UNCHANGED << aggVars, probeVars, watchVars, timerVars, call >>

\* --------------------------------------------------------- specifications
Next ==
    \/ ProbeEnumerate
    \/ ProbeDisk
    \/ HandleNotifyEvent
    \/ TimerTick
    \/ ReceiveMetrics
    \/ MainReturn

Spec == Init /\ [][Next]_vars

\* Every thread of the process is scheduled while the process runs.
FairSpec ==
    /\ Spec
    /\ WF_vars(ReceiveMetrics)
    /\ WF_vars(MainReturn)
    /\ WF_vars(ProbeEnumerate)
    /\ WF_vars(ProbeDisk)
    /\ WF_vars(TimerTick)

\* The receive loop and main are scheduled; hdparm and lsblk are run without a
\* timeout (disk_status.rs 58-62, lsblk.rs 27-34), so the probe thread may stay
\* in one call for ever, and nothing obliges the callback or the timer to send.
IsolationSpec ==
    /\ Spec
    /\ WF_vars(ReceiveMetrics)
    /\ WF_vars(MainReturn)

\* ------------------------------------------- functions called on their own
\* Every sequence over S of at most n elements.
SeqsUpTo(S, n) == UNION { [1..k -> S] : k \in 0..n }

\* match_base_path (watch.rs) on every short list of roots and of paths.
MaxRoots == 2       \* configured roots in one call
MaxPaths == 2       \* affected paths of one event
RootChoices == { << "a" >>, << "a", "b" >>, << "c" >> }
PathChoices == { << "a", "x" >>, << "a", "b", "y" >>, << "c" >>, << "d", "x" >> }

ResolverInit ==
    /\ ProgramInit
    /\ call \in { [done |-> FALSE, base_paths |-> b, paths |-> p, result |-> ResolveErr] :
                    b \in SeqsUpTo(RootChoices, MaxRoots),
                    p \in SeqsUpTo(PathChoices, MaxPaths) }

CallMatchBasePath ==
    /\ ~call.done
    /\ call' = [call EXCEPT !.done = TRUE,
                            !.result = MatchBasePath(call.base_paths, call.paths)]
    /\ UNCHANGED programVars

ResolverSpec == ResolverInit /\ [][CallMatchBasePath]_vars

\* The two enumerations on every small system of block devices. A block
\* device has a name, a type and is rotational or not; the kernel shows it as
\* <sysfs>/block/<name> with queue/rotational reading "1\n" or "0\n", the
\* helper prints it as the record {name, type, rota}.
MaxDevices == 2     \* block devices of one system
DeviceNames == { "sda", "sdb", "sr0", "vda" }
DeviceTypes == { "disk", "rom" }
BlockDevices ==
    { Disk(n, t, r) : n \in DeviceNames, t \in DeviceTypes, r \in BOOLEAN }

\* The systems: lists of devices of different names, in listing order.
Systems ==
    { l \in SeqsUpTo(BlockDevices, MaxDevices) :
        \A i, j \in 1..Len(l) : l[i].name = l[j].name => i = j }

SysfsEntry(dev) ==
    DirEntry(dev.name, TRUE, TRUE, (IF dev.rota THEN "1" ELSE "0") \o "\n")
SysfsEntries(devices) == [i \in 1..Len(devices) |-> SysfsEntry(devices[i])]
LsblkRun(devices) == [exit |-> "ok", json |-> TRUE, blockdevices |-> devices]

NoDisks == [ok |-> FALSE, disks |-> << >>]

EnumeratorInit ==
    /\ ProgramInit
    /\ call \in { [done |-> FALSE, blockdevices |-> l, lsblk |-> NoDisks, sysfs |-> NoDisks] :
                    l \in Systems }

CallGetAllDisks ==
    /\ ~call.done
    /\ call' = [call EXCEPT !.done = TRUE,
                            !.lsblk = GetAllDisks(LsblkRun(call.blockdevices)),
                            !.sysfs = SysfsGetAllDisks(TRUE, SysfsEntries(call.blockdevices))]
    /\ UNCHANGED programVars

EnumeratorSpec == EnumeratorInit /\ [][CallGetAllDisks]_vars

\* The exporter on two registries, each built by its own list of updates.
MaxUpdates == 2     \* updates applied to one registry
Updates == { [disk |-> d, status |-> v] : d \in DeviceIds, v \in {0, 1} }
CounterValues == { 0, 3 }

RECURSIVE ApplyUpdates(_, _)
ApplyUpdates(children, updates) ==
    IF updates = << >> THEN children
    ELSE ApplyUpdates(SetChild(children, Head(updates).disk, Head(updates).status),
                      Tail(updates))

ExporterInit ==
    /\ ProgramInit
    /\ call \in { [done |-> FALSE, updates_a |-> a, updates_b |-> b, counter |-> c,
                   out_a |-> << >>, out_b |-> << >>] :
                    a \in SeqsUpTo(Updates, MaxUpdates),
                    b \in SeqsUpTo(Updates, MaxUpdates),
                    c \in CounterValues }

CallEncode ==
    /\ ~call.done
    /\ call' = [call EXCEPT
                  !.done = TRUE,
                  !.out_a = Encode(Gather(ApplyUpdates(<< >>, call.updates_a), call.counter)),
                  !.out_b = Encode(Gather(ApplyUpdates(<< >>, call.updates_b), call.counter))]
    /\ UNCHANGED programVars

ExporterSpec == ExporterInit /\ [][CallEncode]_vars

\* One DiskStatus message applied to a registry several times in a row.
MaxRepeat == 3      \* times the same update is applied
RegistryMaps == UNION { [D -> {0, 1}] : D \in SUBSET DeviceIds }

\* The registry after the message was handled n times.
RECURSIVE HandleTimes(_, _, _, _)
HandleTimes(m, g, c, n) ==
    IF n = 0 THEN [gauges |-> g, counter |-> c, ok |-> TRUE]
    ELSE LET r == Handle(m, g, c)
         IN  HandleTimes(m, r.gauges, r.counter, n - 1)

RepeatInit ==
    /\ ProgramInit
    /\ call \in { [done |-> FALSE, gauges |-> g, counter |-> c,
                   message |-> DiskStatusMsg(u.disk, u.status, 1), times |-> n,
                   result |-> [gauges |-> g, counter |-> c, ok |-> TRUE]] :
                    g \in RegistryMaps, c \in CounterValues, u \in Updates,
                    n \in 1..MaxRepeat }

CallHandle ==
    /\ ~call.done
    /\ call' = [call EXCEPT
                  !.done = TRUE,
                  !.result = HandleTimes(call.message, call.gauges, call.counter, call.times)]
    /\ UNCHANGED programVars

RepeatSpec == RepeatInit /\ [][CallHandle]_vars

\* Hdparm::get_disk_status on every short standard output.
MaxLines == 2       \* lines of one standard output after the device line
StdoutLines ==
    { " drive state is:  standby\n", " drive state is:  active/idle\n",
      " drive state is:  unknown\n", " drive state is:  sleeping\n", "\n" }

RECURSIVE Concat(_)
Concat(lines) == IF lines = << >> THEN "" ELSE Head(lines) \o Concat(Tail(lines))

Stdouts == { "/dev/sda:\n" \o Concat(l) : l \in SeqsUpTo(StdoutLines, MaxLines) }

\* Command::output failed; the command exited with a failure; it succeeded.
ExitKinds == { "execfail", "nonzero", "ok" }

HdparmInit ==
    /\ ProgramInit
    /\ call \in { [done |-> FALSE, exit |-> e, stdout |-> o, result |-> ProbeErr] :
                    e \in ExitKinds, o \in Stdouts }

CallGetDiskStatus ==
    /\ ~call.done
    /\ call' = [call EXCEPT
                  !.done = TRUE,
                  !.result = GetDiskStatus(HdparmRun(call.exit # "execfail", call.exit = "ok",
                                                     call.stdout))]
    /\ UNCHANGED programVars

HdparmSpec == HdparmInit /\ [][CallGetDiskStatus]_vars

\* handle_notify_event (watch.rs) called by the watcher for one event after
\* another, while the receiver is dropped at some point in between.
MaxEvents == 3      \* events the watcher delivers to the callback
WatcherInit ==
    /\ ProgramInit
    /\ call \in { [done |-> FALSE, events |-> e, dropAt |-> k, handled |-> 0,
                   channel |-> << >>, installed |-> TRUE] :
                    e \in SeqsUpTo(NotifyResults, MaxEvents) \ { << >> },
                    k \in 0..MaxEvents }

\* One invocation: the message of lines 32 to 35 is sent, which fails once
\* the receiver is gone, after call.dropAt invocations.
CallHandleNotifyEvent ==
    /\ ~call.done
    /\ call.installed
    /\ LET i == call.handled + 1
           open == i <= call.dropAt
           message == EventMessage(call.events[i])
       IN  call' = [call EXCEPT
                      !.handled = i,
                      !.channel = IF open
                                  THEN Send(@, NotifyEventMsg(message, Len(@) + 1))
                                  ELSE @,
                      !.installed = HandlesNext(open),
                      !.done = (i = Len(call.events))]
    /\ UNCHANGED programVars

WatcherSpec == WatcherInit /\ [][CallHandleNotifyEvent]_vars

\* DiskMonitor::update_metrics (metrics.rs) called one cycle after another on
\* one monitor, as the test it_works calls it once.
MaxCycles == 2      \* calls of update_metrics on the monitor

\* What read_dir(sysfs/block) can list: devices that spin or not, a device
\* that is no disk, and one whose queue/rotational cannot be read.
MonitorEntries ==
    { DirEntry("sda", TRUE, TRUE, "1\n"), DirEntry("sdb", TRUE, TRUE, "1\n"),
      DirEntry("sdb", TRUE, TRUE, "0\n"), DirEntry("sdb", TRUE, FALSE, ""),
      DirEntry("sr0", TRUE, TRUE, "1\n") }
MonitorDirs ==
    { l \in SeqsUpTo(MonitorEntries, MaxDevices) :
        \A i, j \in 1..Len(l) : l[i].file_name = l[j].file_name => i = j }

\* DiskMonitor::new registers the disk_status GaugeVec only: the registry of
\* the monitor gathers that family alone.
MonitorGather(children) ==
    SelectSeq(Gather(children, 0), LAMBDA mf : mf.name = "disk_status")

\* Mutant: the textfile is written on the way out of a failed cycle as well.
CycleAfterWriteAlways(ok, rest) ==
    IF ~ok \/ rest = << >> THEN "write" ELSE "probing"

\* update_metrics after get_all_disks or one get_disk_status: the ? returns
\* the error to the caller, the for loop takes the next disk, and after the
\* last disk write_textfile is called.
CycleAfter(ok, rest) ==
    IF ~ok THEN "idle"
    ELSE IF rest = << >> THEN "write"
    ELSE "probing"

\* DiskMonitor::new: an empty registry, no textfile written yet; writes
\* counts the calls of write_textfile.
MonitorInit ==
    /\ ProgramInit
    /\ call = [done |-> FALSE, pc |-> "idle", cycles |-> 0, todo |-> << >>,
               children |-> << >>, file |-> NoFile, writes |-> 0,
               result |-> "none"]

\* update_metrics, line 35: get_all_disks(&self.sysfs)?
MonitorEnumerate ==
    /\ ~call.done
    /\ call.pc = "idle"
    /\ \E listed \in BOOLEAN, dir_entries \in MonitorDirs :
         LET all == SysfsGetAllDisks(listed, dir_entries)
             pc == CycleAfter(all.ok, all.disks)
         IN  call' = [call EXCEPT
                        !.pc = pc,
                        !.todo = IF all.ok THEN all.disks ELSE << >>,
                        !.result = IF all.ok THEN "none" ELSE "err",
                        !.cycles = IF pc = "idle" THEN @ + 1 ELSE @,
                        !.done = (pc = "idle" /\ call.cycles + 1 = MaxCycles)]
    /\ UNCHANGED programVars

\* update_metrics, lines 37 to 44: one iteration of the for loop.
MonitorProbe ==
    /\ ~call.done
    /\ call.pc = "probing"
    /\ \E run \in HdparmRuns :
         LET disk == Head(call.todo)
             res == GetDiskStatus(run)
             pc == CycleAfter(res.ok, Tail(call.todo))
         IN  call' = [call EXCEPT
                        !.pc = pc,
                        !.todo = IF res.ok THEN Tail(@) ELSE << >>,
                        !.children = IF res.ok /\ res.known
                                     THEN SetChild(@, disk, res.value)
                                     ELSE @,
                        !.result = IF res.ok THEN "none" ELSE "err",
                        !.cycles = IF pc = "idle" THEN @ + 1 ELSE @,
                        !.done = (pc = "idle" /\ call.cycles + 1 = MaxCycles)]
    /\ UNCHANGED programVars

\* update_metrics, line 45: self.write_textfile(), whose result is returned.
MonitorWrite ==
    /\ ~call.done
    /\ call.pc = "write"
    /\ LET content == Encode(MonitorGather(call.children))
       IN  \E fault \in FaultKinds, cut \in Cuts(content) :
             LET written == WriteTextfile(call.file, content, fault, cut)
             IN  call' = [call EXCEPT
                            !.pc = "idle",
                            !.file = written.file,
                            !.writes = @ + 1,
                            !.result = IF written.ok THEN "ok" ELSE "err",
                            !.cycles = @ + 1,
                            !.done = (call.cycles + 1 = MaxCycles)]
    /\ UNCHANGED programVars

MonitorSpec ==
    MonitorInit /\ [][MonitorEnumerate \/ MonitorProbe \/ MonitorWrite]_vars

\* ------------------------------------------------------------------ claims
\* A DiskStatus message for device d waits in the channel.
Pending(d) ==
    \E i \in 1..Len(queue) : queue[i].kind = "DiskStatus" /\ queue[i].disk = d

\* This step applies the message at the head of the queue.
Applies == lastApplied' # lastApplied

\* C1: whatever the interleaving, once the loop has applied every message
\* sent, without a fatal error, the counter is the number of resolved events
\* sent and each gauge is the latest known status the probe sent for it.
C1_InterleavingResult ==
    (aggState = "Running" /\ queue = << >>)
        => (counter = resolvedSent /\ gauges = lastKnown)

C1_Witness ==
    /\ aggState = "Running"
    /\ queue = << >>
    /\ counter = 2
    /\ lastApplied["probe"] >= 2
    /\ lastApplied["timer"] >= 1
    /\ "/dev/sda" \in DOMAIN gauges

\* C2: a device whose latest probe result is Unknown, after a known one,
\* keeps the gauge of that known result once no update for it is in flight,
\* and the registry holds entries for devices with a known result only.
C2_UnknownRetainsKnown ==
    aggState = "Running" =>
        /\ \A d \in unknownLatest \cap DOMAIN lastKnown :
              ~Pending(d) => (d \in DOMAIN gauges /\ gauges[d] = lastKnown[d])
        /\ DOMAIN gauges \subseteq DOMAIN lastKnown

C2_Witness ==
    /\ aggState = "Running"
    /\ "/dev/sda" \in unknownLatest \cap DOMAIN gauges
    /\ ~Pending("/dev/sda")
    /\ gauges["/dev/sda"] = 1

\* C3: the loop applies the messages of one producer in the order that
\* producer sent them: the next one applied is always the next one sent.
C3_FifoPerProducer ==
    [][\A p \in Producers :
          lastApplied'[p] = lastApplied[p] \/ lastApplied'[p] = lastApplied[p] + 1]_vars

C3_Witness ==
    /\ lastApplied["probe"] >= 2
    /\ lastApplied["watch"] >= 2
    /\ lastApplied["timer"] >= 1

\* C4: the counter never decreases: it grows by exactly 1 when a resolved
\* NotifyEvent is applied and is left alone by every other step.
C4_CounterMonotone ==
    [][IF Applies /\ Head(queue).kind = "NotifyEvent" /\ Head(queue).ok
       THEN counter' = counter + 1
       ELSE counter' = counter]_vars

C4_Witness ==
    /\ counter = 2
    /\ lastApplied["probe"] >= 1
    /\ lastApplied["timer"] >= 1

\* C5: applying a NotifyEvent(Err) stops the loop with an error and leaves
\* the registry and the file alone; once the loop has stopped nothing is
\* applied and nothing is written.
C5_ResolutionErrorFatal ==
    [][/\ (Applies /\ Head(queue).kind = "NotifyEvent" /\ ~Head(queue).ok)
            => /\ aggState' = "Stopped"
               /\ aggResult' = "err"
               /\ UNCHANGED << gauges, counter, file >>
       /\ aggState = "Stopped"
            => UNCHANGED << gauges, counter, file, lastApplied, aggState, aggResult >>]_vars

\* The loop stopped on a NotifyEvent(Err) with a SaveFile queued behind it.
C5_Witness ==
    /\ aggResult = "err"
    /\ watchFailed
    /\ writeFault \notin {"create", "encode"}
    /\ nSent["timer"] > lastApplied["timer"]
    /\ mainPc = "returned"

\* The samples a textfile holds.
FileGauges(f) ==
    { << f.lines[i].label, f.lines[i].value >> :
        i \in { j \in 1..Len(f.lines) :
                  f.lines[j].t = "sample" /\ f.lines[j].name = "disk_status" } }
FileCounters(f) ==
    { f.lines[i].value :
        i \in { j \in 1..Len(f.lines) :
                  f.lines[j].t = "sample" /\ f.lines[j].name = "notify_events" } }

\* C7: a SaveFile that is written without a fault leaves in the file the
\* samples of the registry as it stands when the SaveFile is dequeued, and
\* no other step touches the file.
C7_SnapshotOfCurrentRegistry ==
    [][/\ (Applies /\ Head(queue).kind = "SaveFile" /\ writeFault' = "none")
            => /\ file'.exists
               /\ FileGauges(file') = { << d, gauges[d] >> : d \in DOMAIN gauges }
               /\ FileCounters(file') = { counter }
               /\ UNCHANGED << gauges, counter >>
       /\ ~(Applies /\ Head(queue).kind = "SaveFile") => file' = file]_vars

\* A snapshot taken between updates: the file shows the counter at 1 while
\* the registry has moved on to 2.
C7_Witness ==
    /\ writeFault = "none"
    /\ FileCounters(file) = {1}
    /\ FileGauges(file) # {}
    /\ counter = 2

\* C8: a fault in write_textfile (create, encode, or the write of the
\* encoded bytes) stops the loop with an error.
C8_WriteFailureFatal ==
    writeFault \in {"create", "encode", "flush"} => aggResult = "err"

\* C9: after an enumeration, probe, watch or serialization failure the
\* receive loop eventually returns an error.
C9_FatalUnwinds ==
    (probeFailed \/ watchFailed \/ writeFault \in {"create", "encode", "flush"})
        ~> (aggResult = "err")

\* C10: an enumeration or probe failure ends the probe loop, and an ended
\* probe loop stays ended and sends nothing.
C10_ProbeFailureEndsLoop ==
    [][/\ probeFailed' => probePc' = "ended"
       /\ probePc = "ended"
            => /\ probePc' = "ended"
               /\ nSent'["probe"] = nSent["probe"]
               /\ \A d \in DeviceIds : Pending(d)' => Pending(d)]_vars

\* The loop ended on a failure after it had sent an update, while the other
\* producers went on.
C10_Witness ==
    /\ probeFailed
    /\ probePc = "ended"
    /\ nSent["probe"] >= 1
    /\ lastApplied["watch"] >= 1
    /\ aggState = "Running"


\* The positions of the roots that contain at least one of the paths.
Containing(base_paths, paths) ==
    { i \in 1..Len(base_paths) :
        \E j \in 1..Len(paths) : StartsWith(paths[j], base_paths[i]) }

Reverse(s) == [i \in 1..Len(s) |-> s[Len(s) + 1 - i]]

\* C11: match_base_path returns the first root, in the order configured,
\* that contains one of the paths, whatever the order of the paths and
\* whether or not a later root lies deeper; it fails when no root contains a
\* path, an empty list of roots or of paths included.
C11_FirstRootInOrder ==
    call.done =>
        LET hits == Containing(call.base_paths, call.paths)
        IN  /\ hits = {} => ~call.result.ok
            /\ hits # {} =>
                 /\ call.result.ok
                 /\ \E i \in hits :
                      /\ \A k \in hits : i <= k
                      /\ call.result.root = ToStringLossy(call.base_paths[i])
            /\ call.result = MatchBasePath(call.base_paths, Reverse(call.paths))

\* The first root wins over the deeper second one; the path under it comes
\* second in the event.
C11_Witness ==
    /\ call.done
    /\ call.base_paths = << << "a" >>, << "a", "b" >> >>
    /\ call.paths = << << "d", "x" >>, << "a", "b", "y" >> >>
    /\ call.result = [ok |-> TRUE, root |-> "/a"]


\* The positions of the rotational records of type "disk".
RotationalDisks(devices) ==
    { i \in 1..Len(devices) : devices[i].rota /\ devices[i].disk_type = "disk" }

\* C12: get_all_disks (lsblk) returns "/dev/<name>" for exactly the records
\* with rota true and type "disk", one path per such record, wherever the
\* record stands in the list.
C12_OnlyRotationalDisks ==
    call.done =>
        /\ call.lsblk.ok
        /\ SeqToSet(call.lsblk.disks)
             = { DevPath(call.blockdevices[i].name) : i \in RotationalDisks(call.blockdevices) }
        /\ Len(call.lsblk.disks) = Cardinality(RotationalDisks(call.blockdevices))

\* A rotational rom stands before the one rotational disk and is left out.
C12_Witness ==
    /\ call.done
    /\ call.blockdevices = << Disk("sr0", "rom", TRUE), Disk("sda", "disk", TRUE) >>
    /\ call.lsblk.disks = << "/dev/sda" >>

\* C13: on the same system of block devices the sysfs scan and the lsblk
\* strategy return the same set of devices.
C13_StrategiesEquivalent ==
    call.done =>
        /\ call.sysfs.ok = call.lsblk.ok
        /\ SeqToSet(call.sysfs.disks) = SeqToSet(call.lsblk.disks)


\* C14: the output depends on the registry's map and counter only: the gauge
\* family comes before the counter family, the gauge samples ascend by
\* DeviceId, and two registries with the same map and counter give the same
\* lines whatever the order their updates were applied in.
C14_ExportDeterministic ==
    call.done =>
        /\ \A i, j \in 1..Len(call.out_a) :
             (call.out_a[i].name = "disk_status" /\ call.out_a[j].name = "notify_events")
                 => i < j
        /\ \A i, j \in 1..Len(call.out_a) :
             (/\ i < j
              /\ call.out_a[i].t = "sample" /\ call.out_a[i].name = "disk_status"
              /\ call.out_a[j].t = "sample" /\ call.out_a[j].name = "disk_status")
                 => Rank(call.out_a[i].label) < Rank(call.out_a[j].label)
        /\ (MapOf(ApplyUpdates(<< >>, call.updates_a)) = MapOf(ApplyUpdates(<< >>, call.updates_b)))
              => call.out_a = call.out_b
        /\ call.out_a = Serialize(MapOf(ApplyUpdates(<< >>, call.updates_a)), call.counter)

\* /dev/sda = 1 and /dev/sdb = 0, set in the two orders.
C14_Witness ==
    /\ call.done
    /\ call.updates_a = << [disk |-> "/dev/sdb", status |-> 0], [disk |-> "/dev/sda", status |-> 1] >>
    /\ call.updates_b = << [disk |-> "/dev/sda", status |-> 1], [disk |-> "/dev/sdb", status |-> 0] >>
    /\ call.out_a = call.out_b
    /\ Len(call.out_a) = 7
    /\ call.out_a[3].label = "/dev/sda"


\* C15: a DiskStatus message applied N >= 1 times in a row to any registry
\* leaves the registry that applying it once leaves.
C15_UpdateIdempotent ==
    call.done =>
        /\ call.result = Handle(call.message, call.gauges, call.counter)
        /\ call.result.gauges[call.message.disk] = call.message.status

\* /dev/sda goes from 0 to 1 under three applications, /dev/sdb stays.
C15_Witness ==
    /\ call.done
    /\ call.times = 3
    /\ call.gauges = [d \in DeviceIds |-> IF d = "/dev/sda" THEN 0 ELSE 1]
    /\ call.message.disk = "/dev/sda"
    /\ call.message.status = 1
    /\ call.result.gauges = [d \in DeviceIds |-> 1]


\* C16: once the loop has stopped on an error, the file is what the latest
\* faultless write left in it.
C16_LastSnapshotKept ==
    (aggResult = "err" /\ lastGood.exists) => file = lastGood

\* C18: a message has one effect: a DiskStatus sets the gauge of its own
\* device and leaves the counter and the other gauges; a NotifyEvent(Ok) adds
\* 1 to the counter and leaves the gauges; a SaveFile leaves both; only a
\* SaveFile touches the file.
C18_OneEffectPerMessage ==
    [][Applies =>
         LET m == Head(queue)
         IN  /\ m.kind = "DiskStatus" =>
                  /\ DOMAIN gauges' = DOMAIN gauges \cup {m.disk}
                  /\ gauges'[m.disk] = m.status
                  /\ \A d \in DOMAIN gauges \ {m.disk} : gauges'[d] = gauges[d]
                  /\ counter' = counter
                  /\ file' = file
             /\ (m.kind = "NotifyEvent" /\ m.ok) =>
                  /\ gauges' = gauges
                  /\ counter' = counter + 1
                  /\ file' = file
             /\ m.kind = "SaveFile" =>
                  /\ gauges' = gauges
                  /\ counter' = counter]_vars

\* All three kinds were applied; the two gauges differ, so the later update
\* did not reach the other device.
C18_Witness ==
    /\ DOMAIN gauges = DeviceIds
    /\ gauges["/dev/sda"] # gauges["/dev/sdb"]
    /\ counter >= 1
    /\ lastApplied["timer"] >= 1
    /\ file.exists
    /\ aggState = "Running"

\* The devices with a sample in a textfile.
FileDevices(f) == { pair[1] : pair \in FileGauges(f) }

\* C19: no step removes a gauge entry, and a snapshot written without a fault
\* holds a sample for every entry, whatever the later enumerations list.
C19_EntriesNeverRemoved ==
    [][/\ DOMAIN gauges \subseteq DOMAIN gauges'
       /\ (Applies /\ Head(queue).kind = "SaveFile" /\ writeFault' = "none")
            => DOMAIN gauges \subseteq FileDevices(file')]_vars

\* /dev/sdb has an entry and a sample in the file although the latest
\* enumeration, whose probes have been applied, did not list it.
C19_Witness ==
    /\ "/dev/sdb" \in DOMAIN gauges
    /\ "/dev/sdb" \notin enumerated
    /\ enumerated = {"/dev/sda"}
    /\ probePc = "enumerate"
    /\ lastApplied["probe"] = nSent["probe"]
    /\ lastApplied["probe"] >= 2
    /\ writeFault = "none"
    /\ file = lastGood
    /\ FileDevices(file) = DeviceIds
    /\ lastApplied["timer"] >= 2


\* The states a standard output names.
Names(stdout) ==
    { v \in {0, 1} : ContainsStr(stdout, IF v = 0 THEN "standby" ELSE "active/idle") }

\* C17: a query that ran and exited with success is classified as Standby
\* (0), Active (1) or Unknown and never fails: an output that names one state
\* gives that state, an output that names none (unrecognized) or both
\* (ambiguous) gives Unknown; a query that could not run or exited with a
\* failure gives an error and no state.
C17_ProbeClassification ==
    call.done =>
        IF call.exit = "ok"
        THEN /\ call.result.ok
             /\ call.result \in { ProbeSome(0), ProbeSome(1), ProbeNone }
             /\ \A v \in {0, 1} : Names(call.stdout) = {v} => call.result = ProbeSome(v)
             /\ Cardinality(Names(call.stdout)) # 1 => call.result = ProbeNone
        ELSE call.result = ProbeErr


\* The probe loop has ended, or stands inside a cycle, where it may hang.
ProbeOut == probePc \in {"probing", "ended"}

\* Every message the callback and the timer have sent has been applied. A
\* producer's count of messages sent never decreases, so a message sent by
\* now has been applied at the next moment this holds.
CaughtUp == \A p \in {"watch", "timer"} : lastApplied[p] = nSent[p]

\* C20 as stated: with the probe loop hung or ended, every message of the
\* callback and of the timer that was sent is eventually applied.
C20_AllApplied == ProbeOut ~> CaughtUp

\* C20, amended: the probe loop's steps, its end included, leave the loop,
\* the callback and the timer as they are; the loop stops only on an error of
\* its own (a NotifyEvent(Err) or a failed write), and until then the other
\* producers can send; every message of the callback and of the timer that
\* was sent is eventually applied, unless the loop stops on such an error
\* first.
C20_ProducerIsolation ==
    /\ [][(probePc' # probePc \/ todo' # todo)
            => UNCHANGED << aggState, aggResult, rxAlive, watcherAlive, timerPc,
                            gauges, counter, file, lastApplied >>]_vars
    /\ [](aggState = "Running" => (rxAlive /\ watcherAlive /\ timerPc = "running"))
    /\ [](aggState = "Stopped" =>
            (aggResult = "err" /\ (watchFailed \/ writeFault \in {"create", "encode"})))
    /\ ProbeOut ~> (CaughtUp \/ aggResult = "err")

\* The probe loop ended on its first enumeration; the loop went on applying
\* what the callback and the timer sent.
C20_Witness ==
    /\ probePc = "ended"
    /\ probeFailed
    /\ nSent["probe"] = 0
    /\ aggState = "Running"
    /\ lastApplied["watch"] >= 2
    /\ lastApplied["timer"] >= 2
    /\ counter >= 1
    /\ file.exists

\* C21: every invocation of the filesystem-event callback sends exactly one
\* WatchEvent message: a resolved-root message when the event's paths lie
\* under one or several watched roots, a resolution-error message for a
\* notification error or an event under no root; when the send fails nothing
\* is queued, and in both cases the callback handles the next event.
C21_OneMessagePerCallback ==
    [][ call'.handled = call.handled + 1 =>
          LET res == call.events[call'.handled]
              sent == call.handled < call.dropAt
          IN  /\ call'.installed
              /\ call'.done = (call'.handled = Len(call.events))
              /\ IF sent
                 THEN /\ Len(call'.channel) = Len(call.channel) + 1
                      /\ SubSeq(call'.channel, 1, Len(call.channel)) = call.channel
                      /\ LET m == call'.channel[Len(call'.channel)]
                         IN  /\ m.kind = "NotifyEvent"
                             /\ m.ok = (res.ok /\ Containing(Watches, res.paths) # {})
                 ELSE call'.channel = call.channel
      ]_vars

\* Three events were handled: one whose path lies under two watched roots
\* and a notification error each put one message in the channel, then the
\* receiver was dropped and the send for the third event failed.
C21_Witness ==
    /\ call.done
    /\ call.handled = 3
    /\ call.dropAt = 2
    /\ Cardinality(Containing(Watches, call.events[1].paths)) = 2
    /\ ~call.events[2].ok
    /\ Len(call.channel) = 2
    /\ call.channel[1].ok /\ call.channel[1].root = "/a"
    /\ ~call.channel[2].ok

\* The devices of the running cycle that were queried before the one now at
\* the head of todo.
QueriedBefore == enumerated \ SeqToSet(todo)

\* Every DiskStatus message the probe loop has sent has been applied.
ProbeApplied == lastApplied["probe"] = nSent["probe"]

\* C22 as stated: once a query of a cycle has failed, the messages sent
\* earlier in that cycle, the latest the probe loop has sent, are applied by
\* the loop.
C22_PartialCycleApplied == (probeFailed /\ cycleSent >= 1) ~> ProbeApplied

\* C22, amended: the step in which the query for the device at the head of
\* todo fails sends nothing and ends the cycle and the loop, so nothing is
\* sent for that device or a later one; for every device queried before it in
\* the cycle with a known result the message has been sent, and is in the
\* channel or applied while the loop runs; a failed enumeration sends nothing
\* and ends the loop; what was sent is not taken back and is eventually
\* applied, unless the loop stops on an error of its own first.
C22_PartialCycle ==
    /\ [][(probePc = "probing" /\ probeFailed') =>
            /\ UNCHANGED << queue, nSent, gauges, lastApplied, lastKnown, cycleSent >>
            /\ probePc' = "ended"
            /\ todo' = << >>
            /\ Head(todo) \notin QueriedBefore
            /\ cycleSent = Cardinality(QueriedBefore \ unknownLatest)
            /\ \A d \in QueriedBefore \ unknownLatest :
                  /\ d \in DOMAIN lastKnown
                  /\ aggState = "Running" =>
                        \/ Pending(d)
                        \/ d \in DOMAIN gauges /\ gauges[d] = lastKnown[d]]_vars
    /\ [][(probePc = "enumerate" /\ probeFailed') =>
            /\ UNCHANGED << queue, nSent, gauges, lastApplied, lastKnown >>
            /\ cycleSent' = 0
            /\ probePc' = "ended"
            /\ todo' = << >>]_vars
    /\ [][probePc = "ended" =>
            /\ probePc' = "ended"
            /\ nSent'["probe"] = nSent["probe"]
            /\ cycleSent' = cycleSent]_vars
    /\ probeFailed ~> (ProbeApplied \/ aggResult = "err")

\* The first cycle enumerated two devices; the first was found active, its
\* message was sent and applied; the query for the second failed: the
\* registry holds the first device only and the loop has ended.
C22_Witness ==
    /\ probeFailed
    /\ probePc = "ended"
    /\ cycleSent = 1
    /\ nSent["probe"] = 1
    /\ Cardinality(enumerated) = 2
    /\ lastApplied["probe"] = 1
    /\ aggState = "Running"
    /\ Cardinality(DOMAIN gauges) = 1
    /\ \A d \in DOMAIN gauges : gauges[d] = 1
    /\ ~file.exists

\* The devices that have a gauge in the monitor's registry.
Labelled(children) == { children[i].disk : i \in 1..Len(children) }

\* C23: update_metrics touches the textfile in write_textfile only, which it
\* reaches after every probe of the cycle succeeded; the step in which the
\* enumeration or a probe fails returns the error and leaves the file and
\* the registry as they are, so the file keeps its content and the gauges set
\* earlier in the cycle stay; no step removes a gauge.
C23_WriteOnlyAfterSuccess ==
    [][/\ (call'.file # call.file \/ call'.writes # call.writes)
            => (call.pc = "write" /\ call.result = "none")
       /\ call'.pc = "write" => (call'.result = "none" /\ call'.todo = << >>)
       /\ (call.pc # "write" /\ call'.result = "err") =>
            /\ call'.pc = "idle"
            /\ call'.cycles = call.cycles + 1
            /\ call'.file = call.file
            /\ call'.children = call.children
       /\ Labelled(call.children) \subseteq Labelled(call'.children)
      ]_vars

\* The first cycle wrote /dev/sda as standby; in the second cycle /dev/sda
\* was found active and its gauge set, then a later step of the cycle failed:
\* the call returned the error, the file still shows standby.
C23_Witness ==
    /\ call.done
    /\ call.cycles = 2
    /\ call.writes = 1
    /\ call.result = "err"
    /\ call.file.exists
    /\ FileGauges(call.file) = { << "/dev/sda", 0 >> }
    /\ "/dev/sda" \in Labelled(call.children)
    /\ MapOf(call.children)["/dev/sda"] = 1

====
